---- MODULE Spec2Model ----
(***************************************************************************)
(* makeInterruptible (expo-notifications/src/utils/makeInterruptible.ts):  *)
(* a runner that drives a generator, guarded by an AbortController that    *)
(* every new call replaces.  One run = one call of callFunc.               *)
(*                                                                         *)
(* A run is suspended at one of the two awaits of callFunc:                *)
(*   "awaitNext"   line 59, await iterator.next(resumeValue)               *)
(*   "awaitValue"  line 69, await element.value                            *)
(* and ends at one of its exits:                                           *)
(*   "completed"   line 61, return element.value                           *)
(*   "superseded"  lines 55 and 66, return (undefined)                     *)
(*   "failed"      the await of line 59 or of line 69 threw                *)
(***************************************************************************)
EXTENDS Integers, Sequences, FiniteSets, TLC

\* ---- bounds -------------------------------------------------------------
MaxRuns == 2     \* calls of callFunc in one behaviour
MaxSteps == 2    \* yields of one run of the "generic" generator
MaxK == 2        \* failing attempts the fetch mock is loaded with
MaxRetryRuns == 1  \* calls of callFunc in one behaviour of the retry computation
MaxForever == 3  \* steps of a never-finishing computation that are told apart

\* ---- values -------------------------------------------------------------
\* every JavaScript value of the model is a record of one shape
Val(t, a, n) == [t |-> t, a |-> a, n |-> n]
Null == 0
Undefined == Val("undefined", "", 0)
Runs == 1..(IF MaxRuns > MaxRetryRuns THEN MaxRuns ELSE MaxRetryRuns)
MaxCalls(f) == IF f = "retry" THEN MaxRetryRuns ELSE MaxRuns
DEVICE_TOKEN == "i-am-token"
\* the arguments of the k-th call of a generic computation are the opaque "k";
\* its result, its errors and the values its sub-operations resolve to tell
\* which call and which of its steps they come from
Result(args, n) == Val("result", args, n)
StepError(args, n) == Val("error", args, n)
SubError(args, n) == Val("suberror", args, n)
SubValue(args, n) == Val("val", args, n)
Ok == Val("response", "ok", 0)
NotOk == Val("response", "notok", 0)
Success == Val("result", DEVICE_TOKEN, 0)
Plans == UNION {[1..k -> {"notok", "throw"}] : k \in 0..MaxK}
InFlight == {"awaitNext", "awaitValue"}
Terminal == {"completed", "superseded", "failed"}

VARIABLES
  func,                    \* the generator function handed to makeInterruptible
  globalAbortController,   \* Null or the controller of the latest call
  hasBeenCalled,
  aborted,                 \* controller -> its signal.aborted
  calls,                   \* controllers created so far (run r owns controller r)
  pc,                      \* run -> where callFunc is
  iterator,                \* run -> state of the generator object
  resumeValue,             \* run -> local resumeValue
  yielded,                 \* run -> element.value being awaited at line 69
  steps,                   \* run -> calls of iterator.next made
  outcome,                 \* run -> state of the promise callFunc returned
  last,                    \* the event that produced this state and its input
  supAt                    \* run -> where it was when the next call of callFunc began

vars == <<func, globalAbortController, hasBeenCalled, aborted, calls, pc,
          iterator, resumeValue, yielded, steps, outcome, last, supAt>>

Pending == [state |-> "pending", value |-> Undefined]
Resolved(v) == [state |-> "resolved", value |-> v]
Rejected(e) == [state |-> "rejected", value |-> e]

\* ---- the wrapped generator ---------------------------------------------
\* func(...args): the generator object before its first next()
NewIterator(f, args, plan) ==
  [args |-> args, n |-> 0, done |-> FALSE, result |-> Undefined,
   received |-> <<>>, plan |-> plan, phase |-> "start", attempts |-> 0]

\* any generator: each next() yields a sub-operation, returns or throws
GenericNext(it, rv) ==
  LET got == [it EXCEPT !.received = Append(@, rv)]
      ys == IF it.n < MaxSteps
              THEN {[kind |-> "yield",
                     value |-> Val("sub", it.args, it.n + 1),
                     it |-> [got EXCEPT !.n = @ + 1]]}
              ELSE {}
      rs == {[kind |-> "return", value |-> Result(it.args, it.n),
              it |-> [got EXCEPT !.done = TRUE, !.result = Result(it.args, it.n)]]}
      ts == {[kind |-> "throw", value |-> StepError(it.args, it.n), it |-> got]}
  IN ys \cup rs \cup ts

\* the registration computation: attempt, on failure delay and attempt again
RetryNext(it, rv) ==
  LET got == [it EXCEPT !.received = Append(@, rv)]
      attempt == [kind |-> "yield",
                  value |-> Val("attempt", it.args, it.attempts + 1),
                  it |-> [got EXCEPT !.n = @ + 1, !.attempts = @ + 1,
                                     !.phase = "attempting"]]
      delay == [kind |-> "yield",
                value |-> Val("delay", it.args, it.attempts),
                it |-> [got EXCEPT !.n = @ + 1, !.phase = "delaying"]]
      finish == [kind |-> "return", value |-> Success,
                 it |-> [got EXCEPT !.done = TRUE, !.result = Success,
                                    !.phase = "done"]]
  IN IF it.phase = "attempting"
       THEN IF rv = Ok THEN {finish} ELSE {delay}
       ELSE {attempt}

\* a counter of the never-finishing computation: it stops counting at MaxForever
Capped(n) == IF n < MaxForever THEN n + 1 ELSE n

\* a generator that never returns: every next() yields one more sub-operation
ForeverNext(it, rv) ==
  {[kind |-> "yield",
    value |-> Val("tick", it.args, Capped(it.n)),
    it |-> [it EXCEPT !.n = Capped(@),
                      !.received = IF Len(@) < MaxForever THEN Append(@, rv) ELSE @]]}

GenNext(f, it, rv) ==
  IF f = "retry" THEN RetryNext(it, rv)
  ELSE IF f = "forever" THEN ForeverNext(it, rv)
  ELSE GenericNext(it, rv)

\* what the fetch mock answers to the i-th attempt of a run
FetchOutcome(plan, i) == IF i <= Len(plan) THEN plan[i] ELSE "ok"

\* the attempt as the computation yields it: a thrown fetch is caught inside
\* the sub-operation and shows as no response
AttemptValue(plan, i) ==
  IF FetchOutcome(plan, i) = "ok" THEN Ok
  ELSE IF FetchOutcome(plan, i) = "notok" THEN NotOk
  ELSE Undefined

\* how an awaited element.value can settle
Settlements(v, plan) ==
  IF v.t = "attempt" THEN {Resolved(AttemptValue(plan, v.n))}
  ELSE IF v.t = "delay" THEN {Resolved(Undefined)}
  ELSE IF v.t = "tick" THEN {Resolved(SubValue(v.a, v.n))}
  ELSE {Resolved(SubValue(v.a, v.n)), Rejected(SubError(v.a, v.n))}

\* ---- makeInterruptible --------------------------------------------------
\* the closure variables of makeInterruptible and the controllers' signals
RunnerState ==
  [g |-> globalAbortController, ab |-> aborted, hbc |-> hasBeenCalled]

hasBeenCalledAtLeastOnce == hasBeenCalled

interrupt_noAbort(rs) == [rs EXCEPT !.g = Null]

interrupt_setsFlag(rs) ==
  [rs EXCEPT !.ab = IF rs.g # Null THEN [@ EXCEPT ![rs.g] = TRUE] ELSE @,
             !.g = Null, !.hbc = TRUE]

interrupt_restoresPrevious(rs) ==
  [rs EXCEPT !.ab = IF rs.g # Null THEN [@ EXCEPT ![rs.g] = TRUE] ELSE @,
             !.g = IF rs.g > 1 THEN rs.g - 1 ELSE Null]

\* interrupt(): abort the current controller, if any, and forget it
interrupt(rs) ==
  [rs EXCEPT !.ab = IF rs.g # Null THEN [@ EXCEPT ![rs.g] = TRUE] ELSE @,
             !.g = Null]

markCalled_forgotten(rs) == rs

\* line 44: hasBeenCalled = true
markCalled(rs) == [rs EXCEPT !.hbc = TRUE]

callFuncStart_noInterrupt(rs, id) == [markCalled(rs) EXCEPT !.g = id]

\* lines 44-48: the closure variables once the new controller id is installed
callFuncStart(rs, id) == [interrupt(markCalled(rs)) EXCEPT !.g = id]

guardBeforeNext_removed(ab, r) == FALSE

guardBeforeNext_inverted(ab, r) == ~ab[r]

\* line 54: localAbortController.signal.aborted
guardBeforeNext(ab, r) == ab[r]

guardBeforeAwait_removed(ab, r) == FALSE

\* line 65: localAbortController.signal.aborted
guardBeforeAwait(ab, r) == ab[r]

nextArgument_dropped(rv) == Undefined

\* the value callFunc hands to iterator.next at line 59
nextArgument(rv) == rv

finalValue_dropped(el) == Undefined

\* the value callFunc returns at line 61
finalValue(el) == el.value

awaitThrows_swallowed(s) == FALSE

\* await (lines 59, 69): a rejection is thrown, and nothing in callFunc catches it
awaitThrows(s) == s.state = "rejected"

\* the promise iterator.next returns, as the await of line 59 sees it
NextPromise(el) ==
  IF el.kind = "throw" THEN Rejected(el.value) ELSE Resolved(el.value)

afterNext_guardFirst(done, stale) ==
  IF stale THEN "superseded" ELSE IF done THEN "completed" ELSE "awaitValue"

\* lines 60-69: the finish check, then the guard, then the await
afterNext(done, stale) ==
  IF done THEN "completed" ELSE IF stale THEN "superseded" ELSE "awaitValue"

loopBody_clearsToken(rs) == [rs EXCEPT !.g = Null]

\* lines 52-71: the loop assigns no closure variable and aborts no controller
loopBody(rs) == rs

\* top of the while loop (lines 52-59) of run r, reached by event ev on input in
LoopTop(r, ab, ev, in) ==
  IF guardBeforeNext(ab, r)
    THEN /\ pc' = [pc EXCEPT ![r] = "superseded"]
         /\ outcome' = [outcome EXCEPT ![r] = Resolved(Undefined)]
         /\ steps' = steps
         /\ last' = [op |-> ev, run |-> r, kind |-> "stale", in |-> in]
    ELSE /\ pc' = [pc EXCEPT ![r] = "awaitNext"]
         /\ outcome' = outcome
         /\ steps' = [steps EXCEPT ![r] = IF func = "forever" THEN Capped(@) ELSE @ + 1]
         /\ last' = [op |-> ev, run |-> r, kind |-> "next", in |-> in]

NotYet == [pc |-> "none", steps |-> 0]

InitState ==
  /\ globalAbortController = Null
  /\ hasBeenCalled = FALSE
  /\ aborted = [r \in Runs |-> FALSE]
  /\ calls = 0
  /\ pc = [r \in Runs |-> "idle"]
  /\ iterator = [r \in Runs |-> NewIterator(func, "", <<>>)]
  /\ resumeValue = [r \in Runs |-> Undefined]
  /\ yielded = [r \in Runs |-> Undefined]
  /\ steps = [r \in Runs |-> 0]
  /\ outcome = [r \in Runs |-> Pending]
  /\ last = [op |-> "init", run |-> 0, kind |-> "none", in |-> "none"]
  /\ supAt = [r \in Runs |-> NotYet]

Init == func = "generic" /\ InitState
InitRetry == func = "retry" /\ InitState
InitForever == func = "forever" /\ InitState

\* the arguments and the fetch mock the k-th call of func f can meet
Inputs(f, k) ==
  IF f = "retry" THEN {[args |-> DEVICE_TOKEN, plan |-> p] : p \in Plans}
  ELSE {[args |-> ToString(k), plan |-> <<>>]}

\* callFunc(...args) up to its first await
callFunc(args, plan) ==
  /\ calls < MaxCalls(func)
  /\ LET id == calls + 1
         rs == callFuncStart(RunnerState, id)
     IN /\ hasBeenCalled' = rs.hbc
        /\ aborted' = rs.ab
        /\ globalAbortController' = rs.g
        /\ calls' = id
        /\ iterator' = [iterator EXCEPT ![id] = NewIterator(func, args, plan)]
        /\ resumeValue' = [resumeValue EXCEPT ![id] = Undefined]
        /\ supAt' = IF calls > 0
                      THEN [supAt EXCEPT ![calls] =
                              [pc |-> pc[calls], steps |-> steps[calls]]]
                      ELSE supAt
        /\ LoopTop(id, rs.ab, "callFunc", "none")
  /\ UNCHANGED <<func, yielded>>

\* a call of interrupt() from outside
Interrupt ==
  /\ LET rs == interrupt(RunnerState)
     IN /\ aborted' = rs.ab
        /\ globalAbortController' = rs.g
        /\ hasBeenCalled' = rs.hbc
  /\ last' = [op |-> "interrupt", run |-> 0, kind |-> "none", in |-> "none"]
  /\ UNCHANGED <<func, calls, pc, iterator, resumeValue, yielded, steps,
                 outcome, supAt>>

\* the await of line 59 settles: lines 59-69
NextSettles(r) ==
  /\ pc[r] = "awaitNext"
  /\ \E el \in GenNext(func, iterator[r], nextArgument(resumeValue[r])) :
       /\ iterator' = [iterator EXCEPT ![r] = el.it]
       /\ IF awaitThrows(NextPromise(el))
            THEN /\ pc' = [pc EXCEPT ![r] = "failed"]
                 /\ outcome' = [outcome EXCEPT ![r] = Rejected(el.value)]
                 /\ yielded' = yielded
            ELSE LET to == afterNext(el.kind = "return", guardBeforeAwait(aborted, r))
                 IN /\ pc' = [pc EXCEPT ![r] = to]
                    /\ outcome' =
                         IF to = "completed"
                           THEN [outcome EXCEPT ![r] = Resolved(finalValue(el))]
                         ELSE IF to = "superseded"
                           THEN [outcome EXCEPT ![r] = Resolved(Undefined)]
                         ELSE outcome
                    /\ yielded' = IF to = "awaitValue"
                                    THEN [yielded EXCEPT ![r] = el.value]
                                    ELSE yielded
       /\ last' = [op |-> "NextSettles", run |-> r, kind |-> el.kind, in |-> el.kind]
  /\ LET rs == loopBody(RunnerState)
     IN /\ globalAbortController' = rs.g
        /\ aborted' = rs.ab
        /\ hasBeenCalled' = rs.hbc
  /\ UNCHANGED <<func, calls, resumeValue, steps, supAt>>

\* the await of line 69 settles: line 69, then lines 52-59
ValueSettles(r) ==
  /\ pc[r] = "awaitValue"
  /\ \E s \in Settlements(yielded[r], iterator[r].plan) :
       IF awaitThrows(s)
         THEN /\ pc' = [pc EXCEPT ![r] = "failed"]
              /\ outcome' = [outcome EXCEPT ![r] = Rejected(s.value)]
              /\ last' = [op |-> "ValueSettles", run |-> r, kind |-> "reject",
                           in |-> s.state]
              /\ UNCHANGED <<resumeValue, steps>>
         ELSE /\ resumeValue' = [resumeValue EXCEPT ![r] = s.value]
              /\ LoopTop(r, aborted, "ValueSettles", s.state)
  /\ LET rs == loopBody(RunnerState)
     IN /\ globalAbortController' = rs.g
        /\ aborted' = rs.ab
        /\ hasBeenCalled' = rs.hbc
  /\ UNCHANGED <<func, calls, iterator, yielded, supAt>>

Next ==
  \/ \E in \in Inputs(func, calls + 1) : callFunc(in.args, in.plan)
  \/ Interrupt
  \/ \E r \in Runs : NextSettles(r)
  \/ \E r \in Runs : ValueSettles(r)

Spec == Init /\ [][Next]_vars
SpecRetry == InitRetry /\ [][Next]_vars

\* every pending await settles: the awaited step or sub-operation completes
\* and the continuation of callFunc is run
Settling == \A r \in Runs : WF_vars(NextSettles(r)) /\ WF_vars(ValueSettles(r))
SpecForever == InitForever /\ [][Next]_vars /\ Settling

\* ---- properties ---------------------------------------------------------
Idle == \A r \in Runs : pc[r] \notin InFlight
\* run r evaluated a guard in the step that led to this state
GuardChecked(l, r) == l.run = r /\ l.kind \in {"yield", "stale", "next"}

\* C1 (as stated): a run that was still in flight when the next call of
\* callFunc began ends with its promise resolved to undefined.
C1_SupersededResolvesUndefined ==
  \A r \in Runs :
    (supAt[r].pc \in InFlight /\ pc[r] \in Terminal)
      => outcome[r] = Resolved(Undefined)

\* C1 (amended): a run that was still in flight when the next call of callFunc
\* began makes no further call of iterator.next, and ends in one of three ways:
\* resolved to undefined; resolved to the generator's result, when the next()
\* that was being awaited at that moment returned it; or rejected, when what
\* was being awaited at that moment failed.
C1_SupersededOutcome ==
  \A r \in Runs :
    (supAt[r].pc \in InFlight /\ pc[r] \in Terminal)
      => /\ steps[r] = supAt[r].steps
         /\ \/ pc[r] = "superseded" /\ outcome[r] = Resolved(Undefined)
            \/ /\ pc[r] = "completed"
               /\ supAt[r].pc = "awaitNext"
               /\ outcome[r] = Resolved(iterator[r].result)
            \/ pc[r] = "failed" /\ outcome[r].state = "rejected"

C1_Witness ==
  \E r \in Runs :
    /\ supAt[r].pc = "awaitValue"
    /\ pc[r] = "superseded"
    /\ outcome[r] = Resolved(Undefined)

\* C2: once a later call of callFunc has begun, whatever an earlier run does
\* next ends it without another call of iterator.next, and a guard it evaluates
\* ends it as superseded; a call of iterator.next is only ever made by the run
\* whose controller is the current, un-aborted one.
C2_NoProgressAfterSupersession ==
  [][\A r \in Runs :
       /\ steps'[r] # steps[r]
            => /\ steps'[r] = steps[r] + 1
               /\ globalAbortController' = r
               /\ ~aborted'[r]
               /\ r = calls'
       /\ (r < calls /\ pc'[r] # pc[r])
            => /\ pc'[r] \in Terminal
               /\ steps'[r] = steps[r]
               /\ GuardChecked(last', r)
                    => /\ pc'[r] = "superseded"
                       /\ outcome'[r] = Resolved(Undefined)]_vars

C2_Witness ==
  \E r \in Runs :
    /\ r < calls
    /\ GuardChecked(last, r)
    /\ supAt[r].pc \in InFlight
    /\ pc[r] = "superseded"
    /\ pc[calls] \in InFlight

\* C3: a run whose generator returned while no later call of callFunc had begun
\* has its promise resolved with the value the generator returned.
C3_UninterruptedCompletion ==
  \A r \in Runs :
    (iterator[r].done /\ supAt[r].pc \notin InFlight)
      => /\ pc[r] = "completed"
         /\ outcome[r] = Resolved(iterator[r].result)
         /\ outcome[r].value # Undefined

C3_Witness ==
  \E r \in Runs :
    /\ iterator[r].done
    /\ supAt[r].pc \notin InFlight
    /\ steps[r] >= 2
    /\ pc[r] = "completed"

\* C4: when iterator.next throws or the awaited yielded value rejects, the
\* run's promise rejects with that very error and the run makes no further
\* call of iterator.next, then or later; a promise resolved to undefined
\* belongs to a run whose controller was aborted.
C4_StepFailurePropagates ==
  [][\A r \in Runs :
       /\ (pc[r] \in InFlight /\ last'.run = r /\ last'.kind = "throw")
            => /\ pc'[r] = "failed"
               /\ outcome'[r] =
                    Rejected(StepError(iterator[r].args, iterator[r].n))
               /\ steps' = steps
       /\ (pc[r] \in InFlight /\ last'.run = r /\ last'.kind = "reject")
            => /\ pc'[r] = "failed"
               /\ outcome'[r] = Rejected(SubError(yielded[r].a, yielded[r].n))
               /\ steps' = steps
       /\ pc[r] = "failed"
            => pc'[r] = "failed" /\ outcome'[r] = outcome[r] /\ steps'[r] = steps[r]
       /\ outcome'[r] = Resolved(Undefined)
            => aborted'[r] /\ pc'[r] = "superseded"]_vars

C4_Witness ==
  \E r \in Runs :
    /\ last.run = r
    /\ last.kind \in {"throw", "reject"}
    /\ ~aborted[r]
    /\ pc[r] = "failed"
    /\ outcome[r].state = "rejected"

\* C5: hasBeenCalledAtLeastOnce() is false exactly as long as callFunc has not
\* been called; it never goes from true to false, and a call of interrupt()
\* leaves it as it was.
C5_HasBeenCalledMonotone ==
  [][/\ hasBeenCalledAtLeastOnce = (calls > 0)
     /\ hasBeenCalledAtLeastOnce' = (calls' > 0)
     /\ hasBeenCalledAtLeastOnce => hasBeenCalledAtLeastOnce'
     /\ last'.op = "interrupt"
          => hasBeenCalledAtLeastOnce' = hasBeenCalledAtLeastOnce]_vars

C5_Witness ==
  /\ hasBeenCalledAtLeastOnce
  /\ calls = 1
  /\ last.op = "interrupt"
  /\ pc[1] \in Terminal

\* C6: a controller that was created and is no longer the current one is
\* aborted, is not the current one in the next state either and stays aborted.
C6_TokenNonResurrection ==
  [][\A t \in Runs :
       /\ (t <= calls /\ globalAbortController # t)
            => /\ aborted[t]
               /\ globalAbortController' # t
       /\ aborted[t] => aborted'[t]]_vars

C6_Witness ==
  /\ calls >= 2
  /\ last.op = "interrupt"
  /\ \A t \in 1..calls : aborted[t] /\ globalAbortController # t

C8_InterruptWhenIdle ==
  [][(Idle /\ last'.op = "interrupt")
       => /\ hasBeenCalledAtLeastOnce' = hasBeenCalledAtLeastOnce
          /\ pc' = pc /\ outcome' = outcome /\ steps' = steps
          /\ iterator' = iterator /\ resumeValue' = resumeValue
          /\ \A id \in Runs :
               callFuncStart(RunnerState', id) = callFuncStart(RunnerState, id)]_vars

C8_Witness ==
  /\ Idle
  /\ last.op = "interrupt"
  /\ \E r \in Runs : pc[r] = "completed" /\ ~supAt[r].pc \in InFlight
  /\ \A r \in 1..calls : pc[r] \in Terminal

\* C9: a run of the retry computation never issues more than K+1 attempts,
\* where K is the number of failures the fetch mock holds for it; a run whose
\* controller was never aborted ends only by resolving, and a run that
\* resolves with the generator's result has issued exactly K+1 attempts and
\* resolves with the success result.
C9_RetryExactCount ==
  \A r \in Runs :
    LET K == Len(iterator[r].plan) IN
      /\ iterator[r].attempts <= K + 1
      /\ (pc[r] \in Terminal /\ ~aborted[r]) => pc[r] = "completed"
      /\ pc[r] = "completed"
           => /\ iterator[r].attempts = K + 1
              /\ outcome[r] = Resolved(Success)

C9_Witness ==
  \E r \in Runs :
    /\ iterator[r].plan = <<"notok", "notok">>
    /\ iterator[r].attempts = 3
    /\ ~aborted[r]
    /\ pc[r] = "completed"
    /\ outcome[r] = Resolved(Success)

\* C10: an attempt whose fetch throws does not reject the run: the run goes
\* on (or stops as superseded), its next step yields the delay exactly as
\* after a non-ok response, and a run that met a throwing fetch and was
\* never aborted ends only by resolving with the success result, after one
\* attempt more than the fetch mock held failures.
\* what a step hands back to callFunc
Handed(els) == {[kind |-> e.kind, value |-> e.value] : e \in els}

ThrownAttempt(r) ==
  /\ pc[r] = "awaitValue"
  /\ yielded[r].t = "attempt"
  /\ FetchOutcome(iterator[r].plan, yielded[r].n) = "throw"

C10_RetryOnThrow ==
  [][\A r \in Runs :
       /\ (ThrownAttempt(r) /\ pc'[r] # pc[r])
            => /\ pc'[r] \in {"awaitNext", "superseded"}
               /\ outcome'[r].state # "rejected"
               /\ pc'[r] = "awaitNext"
                    => /\ Handed(RetryNext(iterator'[r], nextArgument(resumeValue'[r])))
                            = Handed(RetryNext(iterator'[r], NotOk))
                       /\ \A e \in RetryNext(iterator'[r], nextArgument(resumeValue'[r])) :
                            e.kind = "yield" /\ e.value.t = "delay"
       /\ ("throw" \in {iterator[r].plan[i] : i \in 1..Len(iterator[r].plan)}
             /\ pc'[r] \in Terminal /\ ~aborted'[r])
            => /\ pc'[r] = "completed"
               /\ outcome'[r] = Resolved(Success)
               /\ iterator'[r].attempts = Len(iterator'[r].plan) + 1]_vars

C10_Witness ==
  \E r \in Runs :
    /\ iterator[r].plan = <<"throw">>
    /\ iterator[r].attempts = 2
    /\ ~aborted[r]
    /\ pc[r] = "completed"
    /\ outcome[r] = Resolved(Success)

\* the runs other than r are where they were, and so are the closure variables
OthersUntouched(r) ==
  /\ \A q \in Runs \ {r} :
       /\ pc'[q] = pc[q] /\ outcome'[q] = outcome[q] /\ steps'[q] = steps[q]
       /\ iterator'[q] = iterator[q] /\ resumeValue'[q] = resumeValue[q]
       /\ yielded'[q] = yielded[q]
  /\ RunnerState' = RunnerState

\* C11: when the sub-operation awaited by a run whose controller is already
\* aborted rejects, that run's promise rejects with the sub-operation's error;
\* whether that sub-operation rejects or resolves, every other run and the
\* closure variables are left as they were.
C11_RejectionOnSupersededRun ==
  [][\A r \in Runs :
       (aborted[r] /\ pc[r] = "awaitValue" /\ last'.op = "ValueSettles"
          /\ last'.run = r)
         => /\ last'.in = "rejected"
                 => /\ pc'[r] = "failed"
                    /\ outcome'[r] = Rejected(SubError(yielded[r].a, yielded[r].n))
            /\ last'.in = "resolved"
                 => /\ pc'[r] = "superseded"
                    /\ outcome'[r] = Resolved(Undefined)
            /\ OthersUntouched(r)]_vars

C11_Witness ==
  \E r \in Runs :
    /\ r < calls
    /\ supAt[r].pc = "awaitValue"
    /\ aborted[r]
    /\ last.op = "ValueSettles" /\ last.run = r /\ last.in = "rejected"
    /\ pc[r] = "failed"
    /\ outcome[r].state = "rejected"
    /\ pc[calls] \in InFlight /\ outcome[calls] = Pending

\* C12: in every reachable state a second interrupt() right after a first one
\* changes nothing: the closure variables and the abort flags after two calls
\* are those after one.
C12_InterruptIdempotent ==
  LET once == interrupt(RunnerState)
  IN /\ interrupt(once) = once
     /\ once.g = Null
     /\ \A t \in 1..calls : once.ab[t]

C12_Witness ==
  /\ last.op = "interrupt"
  /\ calls >= 2
  /\ pc[calls] \in InFlight
  /\ globalAbortController = Null

\* C13: whatever a run whose controller is aborted does next ends it, without
\* another call of iterator.next; when its awaited step yields, it ends with
\* undefined and the yielded value is not awaited.
C13_BoundedWastedWork ==
  [][\A r \in Runs :
       (aborted[r] /\ pc[r] \in InFlight /\ pc'[r] # pc[r])
         => /\ pc'[r] \in Terminal
            /\ steps'[r] = steps[r]
            /\ (last'.op = "NextSettles" /\ last'.in = "yield")
                 => /\ pc'[r] = "superseded"
                    /\ outcome'[r] = Resolved(Undefined)
                    /\ yielded'[r] = yielded[r]]_vars

C13_Witness ==
  \E r \in Runs :
    /\ aborted[r]
    /\ last.op = "NextSettles" /\ last.run = r /\ last.in = "yield"
    /\ pc[r] = "superseded"
    /\ outcome[r] = Resolved(Undefined)

\* C14: when the step awaited by a run whose controller is already aborted
\* returns the generator's result, the run's promise resolves with that
\* result, not with undefined.
C14_FinishBeforeGuard ==
  [][\A r \in Runs :
       (aborted[r] /\ pc[r] = "awaitNext" /\ last'.op = "NextSettles"
          /\ last'.run = r /\ last'.in = "return")
         => /\ pc'[r] = "completed"
            /\ iterator'[r].done
            /\ outcome'[r] = Resolved(iterator'[r].result)
            /\ outcome'[r] # Resolved(Undefined)]_vars

C14_Witness ==
  \E r \in Runs :
    /\ r < calls
    /\ supAt[r].pc = "awaitNext"
    /\ aborted[r]
    /\ last.op = "NextSettles" /\ last.run = r /\ last.in = "return"
    /\ pc[r] = "completed"
    /\ outcome[r] = Resolved(iterator[r].result)

\* C15: the generator of run r has been resumed once per settled call of
\* iterator.next; the first time with undefined, and the (n+1)-th time with
\* the value the sub-operation yielded by its own n-th step resolved to.
C15_ResumptionValues ==
  \A r \in 1..calls :
    LET rec == iterator[r].received IN
      /\ iterator[r].args = ToString(r)
      /\ Len(rec) = IF pc[r] = "awaitNext" THEN steps[r] - 1 ELSE steps[r]
      /\ \A i \in 1..Len(rec) :
           rec[i] = IF i = 1 THEN Undefined ELSE SubValue(ToString(r), i - 1)

C15_Witness ==
  \E r \in Runs :
    /\ r = 2
    /\ steps[1] >= 2
    /\ Len(iterator[r].received) = 3
    /\ iterator[r].received[3] = SubValue(ToString(r), 2)

\* C17: a step of a run (an await of callFunc settling, whatever follows it)
\* leaves globalAbortController, hasBeenCalled and every controller's abort
\* flag as they were.
C17_OnlyInvokeAndInterruptWrite ==
  [][last'.op \in {"NextSettles", "ValueSettles"}
       => /\ globalAbortController' = globalAbortController
          /\ hasBeenCalled' = hasBeenCalled
          /\ aborted' = aborted]_vars

C17_Witness ==
  \E r \in Runs :
    /\ last.op = "NextSettles" /\ last.run = r
    /\ pc[r] = "completed"
    /\ globalAbortController = r
    /\ ~aborted[r]

\* C19: of the controllers created so far, one is un-aborted exactly if it is
\* globalAbortController, so at most one is; each guard answers the same as
\* the comparison of the run's controller with globalAbortController.
C19_AbortFlagAgreesWithToken ==
  /\ \A r \in 1..calls : ~aborted[r] <=> globalAbortController = r
  /\ Cardinality({r \in 1..calls : ~aborted[r]}) <= 1
  /\ \A r \in 1..calls :
       /\ guardBeforeNext(aborted, r) = (globalAbortController # r)
       /\ guardBeforeAwait(aborted, r) = (globalAbortController # r)

C19_Witness ==
  /\ calls = 2
  /\ pc[1] \in InFlight /\ pc[2] \in InFlight
  /\ aborted[1] /\ ~aborted[2]
  /\ globalAbortController = 2

\* C20: right after a call of callFunc, before its generator has been resumed
\* even once, every earlier controller is aborted and the new one is current;
\* and every earlier controller remains aborted whatever becomes of the new run.
C20_InvokeSupersedesUnconditionally ==
  [][/\ last'.op = "callFunc"
          => /\ calls' = calls + 1
             /\ globalAbortController' = calls'
             /\ ~aborted'[calls']
             /\ \A t \in 1..calls : aborted'[t]
             /\ iterator'[calls'].received = <<>>
             /\ pc'[calls'] = "awaitNext"
     /\ \A t \in Runs : t < calls' => aborted'[t]]_vars

C20_Witness ==
  /\ calls = 2
  /\ supAt[1].pc \in InFlight
  /\ pc[1] = "superseded"
  /\ pc[2] = "failed" /\ steps[2] = 1

\* C16: with every pending await settling, a run in flight whose controller is
\* no longer globalAbortController reaches a terminal state, although its
\* generator would yield for ever.
C16_SupersededRunsTerminate ==
  \A r \in Runs :
    (pc[r] \in InFlight /\ globalAbortController # r) ~> (pc[r] \in Terminal)

C16_Witness ==
  \E r \in Runs :
    /\ steps[r] = MaxForever
    /\ globalAbortController # r
    /\ pc[r] = "superseded"
    /\ ~iterator[r].done

\* C18: a run of a never-finishing computation whose controller has not been
\* aborted is in flight with its promise pending, however many steps it has
\* made, and its generator has not returned.
C18_NeverFinishingStaysPending ==
  \A r \in 1..calls :
    /\ ~iterator[r].done
    /\ pc[r] \notin {"completed", "failed"}
    /\ ~aborted[r] => (pc[r] \in InFlight /\ outcome[r] = Pending)

C18_Witness ==
  \E r \in Runs :
    /\ ~aborted[r]
    /\ steps[r] = MaxForever
    /\ iterator[r].n = MaxForever
    /\ last.run = r /\ last.kind = "next"
    /\ pc[r] = "awaitNext"
    /\ outcome[r] = Pending

====
